---- MODULE Spec2Model ----
(***************************************************************************)
(* PromptManager (side panel of the PromptRecord extension): the in-memory *)
(* prompt collection, its persistence through chrome.storage.local, the    *)
(* edit modal that triggers add / update / delete, and the rendered list   *)
(* and filter controls.                                                    *)
(*                                                                         *)
(* Strings are tuples of one-character strings, so that split, trim,       *)
(* toLowerCase and includes are computed the way the JavaScript computes   *)
(* them.  The empty string is <<>>.                                        *)
(*                                                                         *)
(* A handler runs without interruption up to its await: the change of      *)
(* this.prompts and the call of chrome.storage.local.set are one step; the *)
(* completion of the call and the rest of the handler are the next one.    *)
(* The storage service completes the calls in the order they were made.    *)
(* An id is the pair of the clock reading and the random number it is      *)
(* built from; addPrompt reads the clock once.  While the modal is open    *)
(* its overlay covers the list and the filter controls.                    *)
(***************************************************************************)
EXTENDS Integers, Sequences, FiniteSets, TLC

(***************************************************************************)
(* Bounds of the model (the program has no such limits).                   *)
(***************************************************************************)
MaxPrompts == 2
MaxInFlight == 2

(* Readings of the system clock (Date.now(), new Date()), in milliseconds. *)
ClockValues == {0, 1}

(* Results Math.random() can give in the model. *)
RandValues == {0, 1}

(***************************************************************************)
(* Values the user can type into the form and the search box.              *)
(***************************************************************************)
FormInputs ==
  { [title |-> <<"A">>, content |-> <<"h", "w">>, category |-> <<>>,
     groups |-> <<"x", ",", " ", "y", ",", " ">>],
    [title |-> <<"b">>, content |-> <<"a">>, category |-> <<"w">>,
     groups |-> <<>>],
    [title |-> <<"c">>, content |-> <<"B">>, category |-> <<"l">>,
     groups |-> <<" ", "y", ",", ",", "\t", "y", " ", "x">>] }

SearchInputs == { <<>>, <<"a">>, <<"H", "W">>, <<"z">> }

(***************************************************************************)
(* String helpers: String.prototype.toLowerCase / includes / split / trim. *)
(***************************************************************************)
LowerChar(c) ==
  CASE c = "A" -> "a"
    [] c = "B" -> "b"
    [] c = "H" -> "h"
    [] c = "W" -> "w"
    [] OTHER -> c

ToLowerCase(s) == [i \in 1..Len(s) |-> LowerChar(s[i])]

Includes(s, sub) ==
  \E off \in 0..(Len(s) - Len(sub)) : SubSeq(s, off + 1, off + Len(sub)) = sub

IsWhitespace(c) == c \in {" ", "\t"}

RECURSIVE TrimStart(_)
TrimStart(s) ==
  IF s # <<>> /\ IsWhitespace(Head(s)) THEN TrimStart(Tail(s)) ELSE s

RECURSIVE TrimEnd(_)
TrimEnd(s) ==
  IF s # <<>> /\ IsWhitespace(s[Len(s)])
    THEN TrimEnd(SubSeq(s, 1, Len(s) - 1))
    ELSE s

Trim(s) == TrimEnd(TrimStart(s))

(* s.split(sep) for a one-character separator: "" splits to [""]. *)
RECURSIVE SplitFrom(_, _, _)
SplitFrom(s, sep, piece) ==
  IF s = <<>> THEN << piece >>
  ELSE IF Head(s) = sep THEN << piece >> \o SplitFrom(Tail(s), sep, <<>>)
  ELSE SplitFrom(Tail(s), sep, Append(piece, Head(s)))

Split(s, sep) == SplitFrom(s, sep, <<>>)

TrimAll(pieces) == [i \in 1..Len(pieces) |-> Trim(pieces[i])]

NonEmpty(g) == g # <<>>

(* Order of Array.prototype.sort() without a comparator: by code unit. *)
CharCode(c) ==
  CASE c = " " -> 32
    [] c = "\t" -> 9
    [] c = "," -> 44
    [] c = "A" -> 65
    [] c = "B" -> 66
    [] c = "H" -> 72
    [] c = "W" -> 87
    [] c = "a" -> 97
    [] c = "b" -> 98
    [] c = "c" -> 99
    [] c = "h" -> 104
    [] c = "l" -> 108
    [] c = "w" -> 119
    [] c = "x" -> 120
    [] c = "y" -> 121
    [] c = "z" -> 122
    [] c = "U+5206" -> 20998
    [] c = "U+672A" -> 26410
    [] c = "U+7C7B" -> 31867
    [] OTHER -> 0

RECURSIVE StrLeq(_, _)
StrLeq(a, b) ==
  IF a = <<>> THEN TRUE
  ELSE IF b = <<>> THEN FALSE
  ELSE IF CharCode(Head(a)) # CharCode(Head(b))
    THEN CharCode(Head(a)) < CharCode(Head(b))
  ELSE StrLeq(Tail(a), Tail(b))

RECURSIVE SortedSeq(_)
SortedSeq(S) ==
  IF S = {} THEN <<>>
  ELSE LET m == CHOOSE x \in S : \A y \in S : StrLeq(x, y)
       IN << m >> \o SortedSeq(S \ {m})

Range(s) == { s[i] : i \in 1..Len(s) }

(***************************************************************************)
(* The prompt record and the values derived from the form data.            *)
(***************************************************************************)
(* The literal of lines 77 and 96, three CJK characters (U+672A U+5206 U+7C7B,
   "uncategorized"), one token per character. *)
Uncategorized == <<"U+672A", "U+5206", "U+7C7B">>

NoId == <<>>

DeriveCategory(category) ==
  IF category # <<>> THEN category ELSE Uncategorized

(* The pieces trimmed but the empty ones kept. *)
DeriveGroupsKeepingEmpty(groups) ==
  IF groups # <<>> THEN TrimAll(Split(groups, ",")) ELSE <<>>

DeriveGroups(groups) ==
  IF groups # <<>>
    THEN SelectSeq(TrimAll(Split(groups, ",")), NonEmpty)
    ELSE <<>>

ToISOString(t) == << "iso", t >>

GenerateId(now, rand) == << now, rand >>

NewPrompt(data, now, rand) ==
  [ id |-> GenerateId(now, rand),
    title |-> data.title,
    content |-> data.content,
    category |-> DeriveCategory(data.category),
    groups |-> DeriveGroups(data.groups),
    createdAt |-> ToISOString(now),
    updatedAt |-> ToISOString(now) ]

(* The prompt built anew, as addPrompt builds it, instead of spread. *)
UpdatedPromptRebuilt(old, data, now) ==
  [ id |-> old.id,
    title |-> data.title,
    content |-> data.content,
    category |-> DeriveCategory(data.category),
    groups |-> DeriveGroups(data.groups),
    createdAt |-> ToISOString(now),
    updatedAt |-> ToISOString(now) ]

UpdatedPrompt(old, data, now) ==
  [ old EXCEPT !.title = data.title,
               !.content = data.content,
               !.category = DeriveCategory(data.category),
               !.groups = DeriveGroups(data.groups),
               !.updatedAt = ToISOString(now) ]

(* Array.prototype.findIndex: the first index whose id matches, 0 for -1. *)
FindIndex(ps, id) ==
  IF \E i \in 1..Len(ps) : ps[i].id = id
    THEN CHOOSE i \in 1..Len(ps) :
           ps[i].id = id /\ \A j \in 1..(i - 1) : ps[j].id # id
    ELSE 0

(* push instead of unshift *)
Push(ps, p) == Append(ps, p)

Unshift(ps, p) == << p >> \o ps

RemoveId(ps, id) ==
  LET Keep(p) == p.id # id IN SelectSeq(ps, Keep)

(***************************************************************************)
(* Queries.                                                                *)
(***************************************************************************)
(* A search that compares the text as typed, letter case included. *)
PassesFilterCaseSensitive(prompt, filter) ==
  IF filter.search # <<>>
       /\ ~ Includes(prompt.title, filter.search)
       /\ ~ Includes(prompt.content, filter.search)
    THEN FALSE
  ELSE IF filter.category # <<>> /\ prompt.category # filter.category
    THEN FALSE
  ELSE IF filter.group # <<>> /\ filter.group \notin Range(prompt.groups)
    THEN FALSE
  ELSE TRUE

PassesFilter(prompt, filter) ==
  IF filter.search # <<>>
       /\ ~ Includes(ToLowerCase(prompt.title), ToLowerCase(filter.search))
       /\ ~ Includes(ToLowerCase(prompt.content), ToLowerCase(filter.search))
    THEN FALSE
  ELSE IF filter.category # <<>> /\ prompt.category # filter.category
    THEN FALSE
  ELSE IF filter.group # <<>> /\ filter.group \notin Range(prompt.groups)
    THEN FALSE
  ELSE TRUE

GetFilteredPrompts(ps, filter) ==
  LET Pass(p) == PassesFilter(p, filter) IN SelectSeq(ps, Pass)

GetCategories(ps) ==
  SortedSeq({ ps[i].category : i \in { j \in 1..Len(ps) : ps[j].category # <<>> } })

GetGroups(ps) ==
  SortedSeq(UNION { Range(ps[i].groups) : i \in 1..Len(ps) })

(* A write that stops before the last element. *)
StorageCopyPartial(ps) ==
  [ i \in 1..(Len(ps) - 1) |-> [ f \in DOMAIN ps[i] |-> ps[i][f] ] ]

(* What chrome.storage keeps of a value: a copy of every property. *)
StorageCopy(ps) ==
  [ i \in 1..Len(ps) |-> [ f \in DOMAIN ps[i] |-> ps[i][f] ] ]

(* The stored value ignored. *)
LoadedNothing(stored) == <<>>

(* result.prompts || [] *)
LoadedPrompts(stored) ==
  IF stored.present THEN stored.value ELSE <<>>

(* render(): the list element after rendering the filtered prompts. *)
Render(ps, filter, el) ==
  LET filtered == GetFilteredPrompts(ps, filter) IN
  IF Len(filtered) = 0
    THEN [ shown |-> FALSE, items |-> el.items ]
    ELSE [ shown |-> TRUE,
           items |-> [ i \in 1..Len(filtered) |-> filtered[i].id ] ]

(* updateFilters(): the options of the category and group selects. *)
UpdateFilters(ps) ==
  [ categories |-> GetCategories(ps), groups |-> GetGroups(ps) ]

(***************************************************************************)
(* State.                                                                  *)
(***************************************************************************)
VARIABLES
  prompts,        \* this.prompts
  currentFilter,  \* this.currentFilter
  storage,        \* chrome.storage.local: the value under the key 'prompts'
  storageQ,       \* storage calls issued and not yet completed, oldest first
  ready,          \* init() has loaded the prompts and bound the events
  modal,          \* #editModal: shown or not, #promptId, #deleteBtn shown
  listEl,         \* #promptList: shown or not, data-id of its items
  filterOptions,  \* options of #categoryFilter and #groupFilter
  clock,          \* the system clock read by Date
  lastCalls       \* history: the mutating method entered and the storage and
                  \* rendering calls made, in order, by the page's last step

vars == << prompts, currentFilter, storage, storageQ, ready, modal, listEl,
           filterOptions, clock, lastCalls >>

EmptyFilter == [ search |-> <<>>, category |-> <<>>, group |-> <<>> ]

GetRequest ==
  [ kind |-> "get", op |-> "load", value |-> <<>>, live |-> TRUE ]

SetRequest(op, ps) ==
  [ kind |-> "set", op |-> op, value |-> ps, live |-> TRUE ]

Orphaned(q) == [ i \in 1..Len(q) |-> [ q[i] EXCEPT !.live = FALSE ] ]

(* new PromptManager(): the constructor, up to the await in loadPrompts. *)
Init ==
  /\ prompts = <<>>
  /\ currentFilter = EmptyFilter
  /\ storage = [ present |-> FALSE, value |-> <<>> ]
  /\ storageQ = << GetRequest >>
  /\ ready = FALSE
  /\ modal = [ open |-> FALSE, promptId |-> NoId, deleteShown |-> FALSE ]
  /\ listEl = [ shown |-> FALSE, items |-> <<>> ]
  /\ filterOptions = [ categories |-> <<>>, groups |-> <<>> ]
  /\ clock = 0
  /\ lastCalls = << "get" >>

CloseModal(m) == [ m EXCEPT !.open = FALSE ]

(***************************************************************************)
(* The environment: the clock, the storage service, the panel.             *)
(***************************************************************************)
Tick ==
  /\ clock' \in ClockValues
  /\ clock' > clock
  /\ UNCHANGED << prompts, currentFilter, storage, storageQ, ready, modal,
                  listEl, filterOptions, lastCalls >>

(* The panel is closed and opened again: a new document and a new
   PromptManager.  Calls already issued to the storage service still
   complete; nothing of the old document waits for them any more. *)
Reload ==
  /\ Len(storageQ) < MaxInFlight
  /\ prompts' = <<>>
  /\ currentFilter' = EmptyFilter
  /\ storageQ' = Append(Orphaned(storageQ), GetRequest)
  /\ ready' = FALSE
  /\ modal' = [ open |-> FALSE, promptId |-> NoId, deleteShown |-> FALSE ]
  /\ listEl' = [ shown |-> FALSE, items |-> <<>> ]
  /\ filterOptions' = [ categories |-> <<>>, groups |-> <<>> ]
  /\ lastCalls' = << "get" >>
  /\ UNCHANGED << storage, clock >>

(* chrome.storage.local.get completes: loadPrompts resumes, then init runs
   bindEvents, render and updateFilters. *)
LoadDone ==
  /\ storageQ # <<>>
  /\ Head(storageQ).kind = "get"
  /\ storageQ' = Tail(storageQ)
  /\ IF Head(storageQ).live
       THEN /\ prompts' = LoadedPrompts(storage)
            /\ ready' = TRUE
            /\ listEl' = Render(prompts', currentFilter, listEl)
            /\ filterOptions' = UpdateFilters(prompts')
            /\ lastCalls' = << "bindEvents", "render", "updateFilters" >>
       ELSE UNCHANGED << prompts, ready, listEl, filterOptions, lastCalls >>
  /\ UNCHANGED << currentFilter, storage, modal, clock >>

(* The same without the call of render(). *)
AfterSaveWithoutRender ==
  /\ filterOptions' = UpdateFilters(prompts)
  /\ lastCalls' = << "updateFilters" >>
  /\ modal' = CloseModal(modal)
  /\ UNCHANGED listEl

(* What a mutating method and its handler do once savePrompts has resolved:
   render(), updateFilters(), then the handler's closeModal(). *)
AfterSave ==
  /\ listEl' = Render(prompts, currentFilter, listEl)
  /\ filterOptions' = UpdateFilters(prompts)
  /\ lastCalls' = << "render", "updateFilters" >>
  /\ modal' = CloseModal(modal)

(* chrome.storage.local.set completes: the value is stored, and the handler
   that awaits it (if its document is still there) resumes. *)
SetDone ==
  /\ storageQ # <<>>
  /\ Head(storageQ).kind = "set"
  /\ storageQ' = Tail(storageQ)
  /\ storage' = [ present |-> TRUE, value |-> StorageCopy(Head(storageQ).value) ]
  /\ IF Head(storageQ).live
       THEN AfterSave
       ELSE UNCHANGED << listEl, filterOptions, lastCalls, modal >>
  /\ UNCHANGED << prompts, currentFilter, ready, clock >>

(* chrome.storage.local.set fails (over the quota, for one): the promise is
   rejected, nothing catches it, and the rest of the handler never runs. *)
SetFail ==
  /\ storageQ # <<>>
  /\ Head(storageQ).kind = "set"
  /\ storageQ' = Tail(storageQ)
  /\ lastCalls' = IF Head(storageQ).live THEN <<>> ELSE lastCalls
  /\ UNCHANGED << prompts, currentFilter, storage, ready, modal, listEl,
                  filterOptions, clock >>

(***************************************************************************)
(* The manager's mutating methods, up to their await.                      *)
(***************************************************************************)
AddPrompt(data, rand) ==
  /\ Len(prompts) < MaxPrompts
  /\ Len(storageQ) < MaxInFlight
  /\ prompts' = Unshift(prompts, NewPrompt(data, clock, rand))
  /\ storageQ' = Append(storageQ, SetRequest("add", prompts'))
  /\ lastCalls' = << "addPrompt", "set" >>
  /\ UNCHANGED modal

(* An unknown id raises: the submit handler never reaches closeModal(). *)
UpdatePromptOrThrow(id, data) ==
  LET index == FindIndex(prompts, id) IN
  IF index # 0
    THEN /\ Len(storageQ) < MaxInFlight
         /\ prompts' = [ prompts EXCEPT
                           ![index] = UpdatedPrompt(prompts[index], data, clock) ]
         /\ storageQ' = Append(storageQ, SetRequest("update", prompts'))
         /\ lastCalls' = << "updatePrompt", "set" >>
         /\ UNCHANGED modal
    ELSE /\ lastCalls' = << "updatePrompt" >>
         /\ UNCHANGED << prompts, storageQ, modal >>

UpdatePrompt(id, data) ==
  LET index == FindIndex(prompts, id) IN
  IF index # 0
    THEN /\ Len(storageQ) < MaxInFlight
         /\ prompts' = [ prompts EXCEPT
                           ![index] = UpdatedPrompt(prompts[index], data, clock) ]
         /\ storageQ' = Append(storageQ, SetRequest("update", prompts'))
         /\ lastCalls' = << "updatePrompt", "set" >>
         /\ UNCHANGED modal
    ELSE \* nothing to await: the submit handler goes on to closeModal()
         /\ modal' = CloseModal(modal)
         /\ lastCalls' = << "updatePrompt" >>
         /\ UNCHANGED << prompts, storageQ >>

DeletePrompt(id) ==
  /\ Len(storageQ) < MaxInFlight
  /\ prompts' = RemoveId(prompts, id)
  /\ storageQ' = Append(storageQ, SetRequest("delete", prompts'))
  /\ lastCalls' = << "deletePrompt", "set" >>
  /\ UNCHANGED modal

(***************************************************************************)
(* The event handlers of bindEvents and render.                            *)
(***************************************************************************)
(* submit of #promptForm *)
Submit(data) ==
  /\ ready /\ modal.open
  /\ IF modal.promptId # NoId
       THEN UpdatePrompt(modal.promptId, data)
       ELSE \E rand \in RandValues : AddPrompt(data, rand)
  /\ UNCHANGED << currentFilter, storage, ready, listEl, filterOptions, clock >>

(* click on #deleteBtn, confirmed *)
DeleteClick ==
  /\ ready /\ modal.open /\ modal.deleteShown
  /\ DeletePrompt(modal.promptId)
  /\ UNCHANGED << currentFilter, storage, ready, listEl, filterOptions, clock >>

(* click on #addBtn or #addFirstBtn: openAddModal() *)
OpenAddModal ==
  /\ ready /\ ~ modal.open
  /\ modal' = [ open |-> TRUE, promptId |-> NoId, deleteShown |-> FALSE ]
  /\ lastCalls' = <<>>
  /\ UNCHANGED << prompts, currentFilter, storage, storageQ, ready, listEl,
                  filterOptions, clock >>

(* click on a rendered .prompt-item: openEditModal(id) *)
OpenEditModal(id) ==
  /\ ready /\ ~ modal.open
  /\ listEl.shown /\ id \in Range(listEl.items)
  /\ IF FindIndex(prompts, id) = 0
       THEN UNCHANGED modal
       ELSE modal' = [ open |-> TRUE, promptId |-> id, deleteShown |-> TRUE ]
  /\ lastCalls' = <<>>
  /\ UNCHANGED << prompts, currentFilter, storage, storageQ, ready, listEl,
                  filterOptions, clock >>

(* click on #closeModal or outside the dialog *)
CloseModalClick ==
  /\ ready /\ modal.open
  /\ modal' = CloseModal(modal)
  /\ lastCalls' = <<>>
  /\ UNCHANGED << prompts, currentFilter, storage, storageQ, ready, listEl,
                  filterOptions, clock >>

SetFilter(filter) ==
  /\ ready /\ ~ modal.open
  /\ filter # currentFilter
  /\ currentFilter' = filter
  /\ listEl' = Render(prompts, currentFilter', listEl)
  /\ lastCalls' = << "render" >>
  /\ UNCHANGED << prompts, storage, storageQ, ready, modal, filterOptions,
                  clock >>

(* input on #searchInput *)
SearchInput(text) == SetFilter([ currentFilter EXCEPT !.search = text ])

(* change of #categoryFilter: one of its options *)
CategoryChange(category) ==
  /\ category \in {<<>>} \cup Range(filterOptions.categories)
  /\ SetFilter([ currentFilter EXCEPT !.category = category ])

(* change of #groupFilter: one of its options *)
GroupChange(group) ==
  /\ group \in {<<>>} \cup Range(filterOptions.groups)
  /\ SetFilter([ currentFilter EXCEPT !.group = group ])

AllIds == { GenerateId(t, r) : t \in ClockValues, r \in RandValues }

AllCategories == { DeriveCategory(d.category) : d \in FormInputs }

AllGroups == UNION { Range(DeriveGroups(d.groups)) : d \in FormInputs }

(***************************************************************************)
(* The next-state relation of the whole panel.                             *)
(***************************************************************************)
StorageEvents == LoadDone \/ SetDone

ModalEvents ==
  \/ DeleteClick
  \/ OpenAddModal
  \/ \E id \in AllIds : OpenEditModal(id)
  \/ CloseModalClick

FilterEvents ==
  \/ \E text \in SearchInputs : SearchInput(text)
  \/ \E category \in {<<>>} \cup AllCategories : CategoryChange(category)
  \/ \E group \in {<<>>} \cup AllGroups : GroupChange(group)

Next ==
  \/ Tick
  \/ Reload
  \/ StorageEvents
  \/ SetFail
  \/ \E data \in FormInputs : Submit(data)
  \/ ModalEvents
  \/ FilterEvents

Spec == Init /\ [][Next]_vars

(***************************************************************************)
(* SpecEdit: the panel stays open, every storage call succeeds, the filter *)
(* is left empty, and the user never issues a write while another is       *)
(* pending (a submit that writes nothing is still possible then).          *)
(***************************************************************************)
NextEdit ==
  \/ Tick
  \/ StorageEvents
  \/ \E data \in FormInputs : Submit(data) /\ Len(storageQ') <= 1
  \/ DeleteClick /\ Len(storageQ') <= 1
  \/ OpenAddModal
  \/ \E id \in AllIds : OpenEditModal(id)
  \/ CloseModalClick

SpecEdit == Init /\ [][NextEdit]_vars

(***************************************************************************)
(* SpecStore: storage calls may fail, writes may overlap and the panel may *)
(* be reopened, all within one reading of the clock; the user always       *)
(* submits the same form input and leaves the filter empty.                *)
(***************************************************************************)
StoreInputs ==
  { [title |-> <<"A">>, content |-> <<"h", "w">>, category |-> <<>>,
     groups |-> <<"x", ",", " ", "y", ",", " ">>] }

NextStore ==
  \/ Reload
  \/ StorageEvents
  \/ SetFail
  \/ \E data \in StoreInputs : Submit(data)
  \/ ModalEvents

SpecStore == Init /\ [][NextStore]_vars

(***************************************************************************)
(* SpecQuery: the panel has loaded a stored collection (any one that adds  *)
(* can have built, newest first); the user only changes the filter.        *)
(***************************************************************************)
QueryPrompts ==
  { NewPrompt(d, t, r) : d \in FormInputs, t \in ClockValues, r \in RandValues }

QueryCollections ==
  { ps \in UNION { [1..n -> QueryPrompts] : n \in 0..MaxPrompts } :
      \A i \in 1..(Len(ps) - 1) : ps[i].createdAt[2] >= ps[i + 1].createdAt[2] }

InitQuery ==
  /\ prompts \in QueryCollections
  /\ currentFilter = EmptyFilter
  /\ storage = [ present |-> prompts # <<>>, value |-> prompts ]
  /\ storageQ = <<>>
  /\ ready = TRUE
  /\ modal = [ open |-> FALSE, promptId |-> NoId, deleteShown |-> FALSE ]
  /\ listEl = Render(prompts, EmptyFilter, [ shown |-> FALSE, items |-> <<>> ])
  /\ filterOptions = UpdateFilters(prompts)
  /\ clock \in ClockValues
  /\ \A i \in 1..Len(prompts) : prompts[i].createdAt[2] <= clock
  /\ lastCalls = << "bindEvents", "render", "updateFilters" >>

NextQuery == FilterEvents

SpecQuery == InitQuery /\ [][NextQuery]_vars

(***************************************************************************)
(* C9.  getFilteredPrompts returns exactly the prompts, in collection      *)
(* order, whose title or content contains the search text (letter case     *)
(* ignored, an empty search passing all), whose category equals the        *)
(* filter's (an empty one passing all) and whose groups hold the filter's  *)
(* group (an empty one passing all); with an empty filter it returns the   *)
(* whole collection; the list shown is that result; and no filter event    *)
(* changes the collection or a filter field other than its own.            *)
(***************************************************************************)
SameLetter(a, b) ==
  \/ a = b
  \/ \E pair \in { <<"A", "a">>, <<"B", "b">>, <<"H", "h">>, <<"W", "w">> } :
       {a, b} = {pair[1], pair[2]}

OccursIn(text, s) ==
  \E k \in 0..(Len(s) - Len(text)) :
    \A i \in 1..Len(text) : SameLetter(text[i], s[k + i])

Selected(p, filter) ==
  /\ filter.search = <<>> \/ OccursIn(filter.search, p.title)
       \/ OccursIn(filter.search, p.content)
  /\ filter.category = <<>> \/ p.category = filter.category
  /\ filter.group = <<>> \/ \E i \in 1..Len(p.groups) : p.groups[i] = filter.group

IsSelectionInOrder(result, ps, filter) ==
  LET idx == { i \in 1..Len(ps) : Selected(ps[i], filter) } IN
  /\ Len(result) = Cardinality(idx)
  /\ \A k \in 1..Len(result) :
       \E i \in idx : /\ Cardinality({ j \in idx : j < i }) = k - 1
                      /\ result[k] = ps[i]

C9_Result ==
  LET result == GetFilteredPrompts(prompts, currentFilter) IN
  /\ IsSelectionInOrder(result, prompts, currentFilter)
  /\ currentFilter = EmptyFilter => result = prompts
  /\ listEl.shown <=> result # <<>>
  /\ listEl.shown => listEl.items = [ k \in 1..Len(result) |-> result[k].id ]

C9_Frame ==
  /\ prompts' = prompts
  /\ Cardinality({ f \in {"search", "category", "group"} :
                     currentFilter'[f] # currentFilter[f] }) <= 1

\* C9: the rendered list is exactly the prompts passing the three filters,
\* in collection order; filtering never changes the collection.
C9_FilteredPrompts == [] C9_Result /\ [][C9_Frame]_vars

C9_Witness ==
  /\ currentFilter.category = <<"w">>
  /\ currentFilter.search = <<"a">>
  /\ Len(prompts) = 2
  /\ listEl.shown /\ Len(listEl.items) = 1

(***************************************************************************)
(* Steps of the mutating methods, told by the write they issue.            *)
(***************************************************************************)
IssuesWrite(op) ==
  /\ Len(storageQ') = Len(storageQ) + 1
  /\ storageQ'[Len(storageQ')].op = op

AddStep == IssuesWrite("add")

UpdateStep == IssuesWrite("update")

DeleteStep == IssuesWrite("delete")

TimeOf(iso) == iso[2]

(***************************************************************************)
(* C3.  The collection is ordered newest-first: an add puts the new prompt *)
(* at the first index and leaves the prompts that were there behind it, in *)
(* their order; so creation times never increase along the collection.     *)
(***************************************************************************)
C3_Ordered ==
  \A i \in 1..Len(prompts) : \A j \in i..Len(prompts) :
    TimeOf(prompts[i].createdAt) >= TimeOf(prompts[j].createdAt)

C3_AddStep ==
  AddStep =>
    /\ Len(prompts') = Len(prompts) + 1
    /\ \A i \in 1..Len(prompts) : prompts'[i + 1] = prompts[i]
    /\ prompts'[1].createdAt = << "iso", clock >>
    /\ \E d \in FormInputs :
         prompts'[1].title = d.title /\ prompts'[1].content = d.content

\* C3: adds prepend, so the collection is newest-first.
C3_NewestFirst == [] C3_Ordered /\ [][C3_AddStep]_vars

C3_Witness ==
  /\ lastCalls = << "addPrompt", "set" >>
  /\ Len(prompts) = 2
  /\ TimeOf(prompts[1].createdAt) > TimeOf(prompts[2].createdAt)

(***************************************************************************)
(* C4.  updatePrompt with an id that no prompt has changes nothing: the    *)
(* collection is as before, nothing is sent to or written in the storage,  *)
(* and the submit handler goes on normally to close the dialog.            *)
(***************************************************************************)
UnknownId(id) == \A i \in 1..Len(prompts) : prompts[i].id # id

C4_Step ==
  \A data \in FormInputs :
    (Submit(data) /\ modal.promptId # NoId /\ UnknownId(modal.promptId)) =>
      /\ prompts' = prompts
      /\ storageQ' = storageQ
      /\ storage' = storage
      /\ lastCalls' = << "updatePrompt" >>
      /\ ~ modal'.open

\* C4: updatePrompt on an unknown id changes nothing and writes nothing.
C4_UpdateUnknownId == [][C4_Step]_vars

C4_Witness ==
  /\ lastCalls = << "updatePrompt" >>
  /\ ~ modal.open
  /\ Len(prompts) = 1
  /\ UnknownId(modal.promptId)

(***************************************************************************)
(* C5.  deletePrompt(id) removes exactly one entry when a prompt has that  *)
(* id and none otherwise.                                                  *)
(***************************************************************************)
C5_Step ==
  DeleteStep =>
    Len(prompts') =
      IF UnknownId(modal.promptId) THEN Len(prompts) ELSE Len(prompts) - 1

\* C5: a delete removes exactly one prompt when the id exists, else none.
C5_DeleteRemovesOne == [][C5_Step]_vars

(***************************************************************************)
(* C7.  updatePrompt on an id the collection has replaces title, content,  *)
(* category, groups and updatedAt of the first prompt with that id and     *)
(* nothing else: id, createdAt and index stay, the other prompts are       *)
(* unchanged; no step changes the createdAt of a prompt.                   *)
(***************************************************************************)
C7_UpdateStep ==
  UpdateStep =>
    \E idx \in 1..Len(prompts) :
      /\ prompts[idx].id = modal.promptId
      /\ \A j \in 1..(idx - 1) : prompts[j].id # modal.promptId
      /\ Len(prompts') = Len(prompts)
      /\ \A j \in 1..Len(prompts) : j # idx => prompts'[j] = prompts[j]
      /\ prompts'[idx].id = prompts[idx].id
      /\ prompts'[idx].createdAt = prompts[idx].createdAt
      /\ prompts'[idx].updatedAt = << "iso", clock >>
      /\ \E d \in FormInputs :
           /\ prompts'[idx].title = d.title
           /\ prompts'[idx].content = d.content
           /\ prompts'[idx].category \in { d.category, Uncategorized }
      /\ DOMAIN prompts'[idx] = DOMAIN prompts[idx]

C7_CreatedAtKept ==
  \A i \in 1..Len(prompts') :
    \/ AddStep /\ i = 1
    \/ \E j \in 1..Len(prompts) :
         /\ prompts[j].id = prompts'[i].id
         /\ prompts[j].createdAt = prompts'[i].createdAt
    \/ /\ ~ ready
       /\ \E j \in 1..Len(storage.value) :
            /\ storage.value[j].id = prompts'[i].id
            /\ storage.value[j].createdAt = prompts'[i].createdAt

\* C7: an update changes five fields of one prompt; createdAt never changes.
C7_UpdateFrame == [][C7_UpdateStep /\ C7_CreatedAtKept]_vars

C7_Witness ==
  /\ lastCalls = << "updatePrompt", "set" >>
  /\ Len(prompts) = 2
  /\ prompts[2].updatedAt # prompts[2].createdAt
  /\ prompts[2].title # prompts[1].title

(***************************************************************************)
(* C10.  addPrompt and updatePrompt store the category given, or the three *)
(* characters U+672A U+5206 U+7C7B when it is empty, and as groups the     *)
(* pieces of                                                               *)
(* the groups text between commas, each trimmed, the empty ones dropped,   *)
(* order and duplicates kept: category "" and groups "x, y, " give the     *)
(* literal and the groups x, y.                                            *)
(***************************************************************************)
Blank(c) == c = " " \/ c = "\t"

(* The k-th boundary of s: position 0, the commas, position Len(s) + 1. *)
Boundaries(s) == { 0, Len(s) + 1 } \cup { i \in 1..Len(s) : s[i] = "," }

Boundary(s, k) ==
  CHOOSE b \in Boundaries(s) :
    Cardinality({ c \in Boundaries(s) : c < b }) = k - 1

(* The positions of the k-th piece that are not blank. *)
Inked(s, k) ==
  { i \in (Boundary(s, k) + 1)..(Boundary(s, k + 1) - 1) : ~ Blank(s[i]) }

TrimmedPiece(s, k) ==
  LET first == CHOOSE i \in Inked(s, k) : \A j \in Inked(s, k) : i <= j
      last == CHOOSE i \in Inked(s, k) : \A j \in Inked(s, k) : i >= j
  IN [ n \in 1..(last - first + 1) |-> s[first + n - 1] ]

ExpectedGroups(s) ==
  LET kept == { k \in 1..(Cardinality(Boundaries(s)) - 1) : Inked(s, k) # {} }
      Nth(m) == CHOOSE k \in kept : Cardinality({ j \in kept : j < k }) = m - 1
  IN [ m \in 1..Cardinality(kept) |-> TrimmedPiece(s, Nth(m)) ]

DerivedFrom(p, d, default) ==
  /\ p.title = d.title
  /\ p.content = d.content
  /\ p.category = IF d.category = <<>> THEN default ELSE d.category
  /\ p.groups = ExpectedGroups(d.groups)

C10_Step(default) ==
  /\ AddStep => \E d \in FormInputs : DerivedFrom(prompts'[1], d, default)
  /\ UpdateStep =>
       \E idx \in 1..Len(prompts) :
         /\ prompts'[idx] # prompts[idx] \/ prompts' = prompts
         /\ \E d \in FormInputs : DerivedFrom(prompts'[idx], d, default)

C10_Example(default) ==
  \A i \in 1..Len(prompts) :
    prompts[i].title = << "A" >> =>
      /\ prompts[i].category = default
      /\ prompts[i].groups = << << "x" >>, << "y" >> >>

(* The three characters of the literal of lines 77 and 96. *)
WeiFenLei == << "U+672A", "U+5206", "U+7C7B" >>

\* C10: category defaults to U+672A U+5206 U+7C7B, groups are the trimmed
\* non-empty pieces.
C10_DerivedFields == [] C10_Example(WeiFenLei) /\ [][C10_Step(WeiFenLei)]_vars

(* C10 as stated: the default category is the text "uncategorized". *)
C10_Uncategorized ==
  [] C10_Example(<< "u", "n", "c", "a", "t", "e", "g", "o", "r", "i", "z",
                    "e", "d" >>)

C10_Witness ==
  /\ lastCalls = << "addPrompt", "set" >>
  /\ prompts[1].title = << "c" >>
  /\ prompts[1].groups = << << "y" >>, << "y", " ", "x" >> >>
  /\ Len(prompts) = 2
  /\ prompts[2].groups = << << "x" >>, << "y" >> >>

(***************************************************************************)
(* C1.  A write carries the whole in-memory collection as it is when       *)
(* savePrompts is called and is stored whole; when the write of an open    *)
(* panel completes with no other write pending, the stored collection is   *)
(* the in-memory one.                                                      *)
(***************************************************************************)
Last(q) == q[Len(q)]

Stored == IF storage.present THEN storage.value ELSE <<>>

C1_Pending ==
  (ready /\ storageQ # <<>>) =>
    /\ Last(storageQ).kind = "set"
    /\ Last(storageQ).value = prompts

C1_Write ==
  storage' # storage =>
    /\ Head(storageQ).kind = "set"
    /\ storage'.present
    /\ storage'.value = Head(storageQ).value
    /\ (Head(storageQ).live /\ Len(storageQ) = 1) => storage'.value = prompts'

\* C1: every write is the whole in-memory collection of the moment of the
\* call, stored whole.
C1_WholeSnapshots == [] C1_Pending /\ [][C1_Write]_vars

C1_Witness ==
  /\ ready /\ storageQ = <<>>
  /\ lastCalls = << "render", "updateFilters" >>
  /\ Len(prompts) = 2
  /\ Stored = prompts

(* C1 as stated: the stored collection is the in-memory one in every state
   of an open panel, the states between change and completion included. *)
C1_StoredIsMemory == ready => Stored = prompts

(***************************************************************************)
(* C2.  No two mutating operations are in flight at the same time: at most *)
(* one handler of the open panel awaits its storage write.                 *)
(***************************************************************************)
Awaited ==
  { i \in 1..Len(storageQ) : storageQ[i].kind = "set" /\ storageQ[i].live }

\* C2: at most one mutating operation awaits its write.
C2_OneInFlight == Cardinality(Awaited) <= 1

(***************************************************************************)
(* C6.  Round trip: the write of an add holds the new prompt with its      *)
(* seven fields, its completion stores every prompt of the write as it is, *)
(* and a load makes the stored collection the in-memory one.               *)
(***************************************************************************)
PromptFields ==
  { "id", "title", "content", "category", "groups", "createdAt", "updatedAt" }

C6_Add ==
  AddStep =>
    /\ DOMAIN prompts'[1] = PromptFields
    /\ Last(storageQ').value = prompts'

C6_Save ==
  SetDone =>
    /\ storage'.present
    /\ Len(storage'.value) = Len(Head(storageQ).value)
    /\ \A i \in 1..Len(storage'.value) : \A f \in PromptFields :
         storage'.value[i][f] = Head(storageQ).value[i][f]

C6_Load ==
  (~ ready /\ ready') =>
    /\ storage.present => prompts' = storage.value
    /\ ~ storage.present => prompts' = <<>>

\* C6: an added prompt comes back from storage with all its fields.
C6_RoundTrip == [][C6_Add /\ C6_Save /\ C6_Load]_vars

C6_Witness ==
  /\ lastCalls = << "bindEvents", "render", "updateFilters" >>
  /\ storage.present
  /\ Len(prompts) = 1
  /\ prompts[1].title = << "A" >>
  /\ prompts[1].groups = << << "x" >>, << "y" >> >>
  /\ prompts = storage.value

(***************************************************************************)
(* C8.  Every change of the collection by a mutating method issues, in the *)
(* same step, a storage write of the changed collection; when that write   *)
(* completes successfully and the panel is still open, render() and then   *)
(* updateFilters() run, and they never run for a write before its          *)
(* completion.                                                             *)
(***************************************************************************)
C8_Mutation ==
  (ready /\ ready' /\ prompts' # prompts) =>
    /\ Len(storageQ') = Len(storageQ) + 1
    /\ Last(storageQ').kind = "set"
    /\ Last(storageQ').value = prompts'
    /\ Len(lastCalls') = 2 /\ lastCalls'[2] = "set"

C8_Completion ==
  (SetDone /\ Head(storageQ).live) =>
    /\ lastCalls' = << "render", "updateFilters" >>
    /\ prompts # <<>> =>
         /\ listEl'.shown
         /\ listEl'.items = [ i \in 1..Len(prompts) |-> prompts[i].id ]
    /\ prompts = <<>> => ~ listEl'.shown
    /\ \A i \in 1..Len(prompts) :
         \E k \in 1..Len(filterOptions'.categories) :
           filterOptions'.categories[k] = prompts[i].category

C8_Order ==
  (ready /\ ready' /\ lastCalls' = << "render", "updateFilters" >>) =>
    /\ Head(storageQ).kind = "set"
    /\ storageQ' = Tail(storageQ)
    /\ storage'.present
    /\ storage'.value = Head(storageQ).value

\* C8: mutation and write call, then on success render and updateFilters.
C8_PersistThenRender == [][C8_Mutation /\ C8_Completion /\ C8_Order]_vars

C8_Witness ==
  /\ lastCalls = << "render", "updateFilters" >>
  /\ ~ modal.open
  /\ Len(prompts) = 1
  /\ listEl = [ shown |-> TRUE, items |-> << prompts[1].id >> ]
  /\ filterOptions.groups = << << "x" >>, << "y" >> >>
  /\ Stored = prompts

(* C8 as stated: the write of every mutation is followed by render() and
   updateFilters(). *)
C8_Step ==
  ( /\ storageQ # <<>>
    /\ Head(storageQ).kind = "set"
    /\ Head(storageQ).live
    /\ storageQ' = Tail(storageQ) ) =>
      lastCalls' = << "render", "updateFilters" >>

C8_AlwaysRendered == [][C8_Step]_vars

====
